---- MODULE Spec2Model ----
(***************************************************************************)
(* Model of the storage gateway's storage-abstraction layer:               *)
(*   storage/src/modules/storage.py            (StorageInterface)          *)
(*   storage/src/modules/interfaces/amazons3.py (AmazonS3Interface)        *)
(*   storage/src/modules/interfaces/local.py    (LocalStorageInterface)    *)
(*   storage/src/modules/interfaces/gdrive.py   (GoogleDriveInterface)     *)
(*                                                                         *)
(* One adapter instance runs inside one asyncio event loop.  Every task    *)
(* (a call made by a request handler, or a background ensure_ocr task      *)
(* created with asyncio.create_task) is a coroutine: the code between two  *)
(* suspension points runs atomically, and one action of the model is one   *)
(* such stretch of code.  The suspension points are the awaits on the      *)
(* cache store, on the backend and on the collaborators.                   *)
(*                                                                         *)
(* utils/jsondb.py (JsonDB, the metadata cache store) is not part of the   *)
(* sources at hand; CacheRead / CacheDump / CacheSet / CacheDel model      *)
(* it from the specification: read() yields a snapshot, and a scoped       *)
(* "async with" block applies its mutation atomically.                     *)
(*                                                                         *)
(* FileData.size and FileData.modified_time are left out: no operation of  *)
(* the layer reads them back.                                              *)
(***************************************************************************)
EXTENDS Integers, Sequences, FiniteSets, TLC

\* ------------------------------------------------------------------ bounds
\* Slots for background ensure_ocr tasks (asyncio.create_task in add_file).
NBg == 3
\* How many collaborator / backend failures one behaviour may inject.
MaxFailures == 1

\* -------------------------------------------------------------------- data
Adapters == {"s3", "local", "gdrive"}
Contents == {"A", "B"}
Names    == {"n1", "n2"}
Pdf      == "application/pdf"
Png      == "image/png"
Txt      == "text/plain"
Levels   == {"none", "ocr", "summary"}

\* hashlib.sha3_256(content).hexdigest(): collisions are assumed away, so the
\* digest is an injective image of the content.
Checksum(content) == <<"sha3", content>>
Checksums == {Checksum(x) : x \in Contents}
ContentOf(c) == c[2]

\* Optional[str] = None
None == <<>>
\* modules.ocr.process_document(content, mime_type): the extraction collaborator
OcrText(content) == <<"ocr", content>>
\* modules.ocr.summarize_document(raw_ocr): the summarization collaborator
SummaryOf(text) == <<"sum", text>>
\* f"Cannot perform OCR on file with MIME type '{mime}'"
Unsupported(mime) == <<"cannot-ocr", mime>>
\* raw_file_data["mime_type"] == "application/pdf" or .startswith("image/")
SupportedMime(mime) == mime = Pdf \/ mime = Png

\* FileData; NoFile stands for "checksum is not a key of files"
NoFile == [present |-> FALSE, ref |-> None, name |-> "", mime |-> "",
           raw_ocr |-> None, summary |-> None]
NewFileData(r, n, m) == [present |-> TRUE, ref |-> r, name |-> n, mime |-> m,
                         raw_ocr |-> None, summary |-> None]
\* FileDataCache(): files = {}
EmptyDoc == [c \in Checksums |-> NoFile]

\* Remote metadata documents that are not a FileDataCache in JSON: a zero-byte
\* body, and bytes that json.loads rejects.
\* (written as values of the documents' shape that are no FileDataCache)
ZeroBytes == [c \in Checksums |-> [NoFile EXCEPT !.name = "(zero bytes)"]]
Garbage   == [c \in Checksums |-> [NoFile EXCEPT !.name = "(not json)"]]
\* S3: "content_text = ... if content_bytes else '{"files":{}}'", then
\* json.loads(content_text); local and Drive: json.loads(content)
Parses(a, body) == IF a = "s3" THEN body # Garbage ELSE body \notin {ZeroBytes, Garbage}
Parsed(body) == IF body = ZeroBytes THEN EmptyDoc ELSE body

\* The file reference each adapter stores.
S3Key(c, name)     == <<"LLMDocumentStore/files/", c, "-", name>>
LocalPath(c, name) == <<"files/", c, "_", name>>
DriveId(k)         == <<"drive-id", k>>

\* -------------------------------------------------------------- workloads
\* A call made on the adapter by a request handler.  "after" = j > 0: the
\* caller issues this call once call j has returned or raised.
Call(op, content, name, mime, level, upd, after) ==
    [op |-> op, content |-> content, name |-> name, mime |-> mime,
     level |-> level, upd |-> upd, after |-> after, http |-> "", size |-> 0]
Add(content, name, mime, level, after) ==
    Call("add_file", content, name, mime, level, "", after)
Get(content, level, after) ==
    Call("get_file_data", content, "", "", level, "", after)
Update(content, upd, after) ==
    Call("update_file_data", content, "", "", "none", upd, after)
Delete(content, after) ==
    Call("delete_file", content, "", "", "none", "", after)
Exists(content, after) ==
    Call("file_exists", content, "", "", "none", "", after)
Download(content, after) ==
    Call("download_file", content, "", "", "none", "", after)
Link(content, after) ==
    Call("download_link", content, "", "", "none", "", after)

Search(after) ==
    Call("search_files", "A", "", "", "none", "", after)

\* --------------------------------------------------------- the HTTP gateway
\* "if file.size > 5 * 1024 * 1024:  # 5 Mb"
MaxUploadSize == 5 * 1024 * 1024
\* file.size of an upload; 0 stands for a size that is missing
UploadSizes == {0, 10, MaxUploadSize, MaxUploadSize + 1}
\* The keys of INTERFACES, and a {storage_interface} that is none of them.
InterfaceName(a) == CASE a = "s3" -> "s3_1" [] a = "local" -> "local_1"
                      [] a = "gdrive" -> "gdrive_1"
InterfaceNames == {InterfaceName(a) : a \in Adapters}
UnknownInterface == "s3_2"
\* A request to an endpoint of main.py: the call its handler makes, with the
\* path parameter naming the instance ("this": the instance under test).
ViaHttp(call, name) == [call EXCEPT !.http = name]
\* POST /upload_file/{storage_interface}: file.filename, file.content_type
\* ("" when missing), file.size
Upload(content, ctype, size, level, after) ==
    [ViaHttp(Call("add_file", content, "n1", ctype, level, "", after), "this")
        EXCEPT !.size = size]

\* update_file_data's "updates" argument
Updates == {"summary", "raw_ocr", "name"}

\* ------------------------------------------------------------------ state
\* Calls of a workload (a workload holds at most NCalls calls).
NCalls == 3
CallIds == 1..NCalls
BgIds   == (NCalls + 1)..(NCalls + NBg)
TaskIds == CallIds \cup BgIds

VARIABLES
    adapter,       \* which StorageInterface subclass the instance is
    tk,            \* the coroutines: position and local variables of each
    cache,         \* self.file_cache (JsonDB over FileDataCache): files
    remote,        \* the remote metadata document (file_metadata.json)
    remoteExists,  \* whether that document exists in the backend
    store,         \* the physical objects: pairs <<file_reference, content>>
    shared,        \* Drive: the file ids readable by anyone (permissions().create)
    nextDriveId,   \* Drive: the id the next files().create() hands out
    driveItems,    \* Drive: how many items of each name _ensure_folder_structure looks for exist
    initialized,   \* _layout_initialized / _folder_initialized
    layoutLock,    \* S3: holder of self._layout_lock (0: free)
    driveService,  \* Drive: self._drive_service is not None
    locks,         \* self.processing_locks
    failsLeft,     \* failures the environment may still inject
    stats          \* instrumentation: collaborator calls, uploads, bootstraps

vars == <<adapter, tk, cache, remote, remoteExists, store, shared, nextDriveId, driveItems,
          initialized, layoutLock, driveService, locks, failsLeft, stats>>

\* List[FileDataResponse] as a mapping: an entry whose fd is not present is
\* not in the list.
NoListing == [c \in Checksums |-> [fd |-> NoFile, isproc |-> FALSE]]

\* A slot no coroutine uses.
IdleTask == [op |-> "none", pc |-> "idle", content |-> "", name |-> "",
             mime |-> "", level |-> "none", upd |-> "", after |-> 0,
             rawc |-> "", fd |-> NoFile, doc |-> EmptyDoc, ret |-> "",
             holds |-> FALSE, isproc |-> FALSE, err |-> "",
             uploaded |-> FALSE, sampledFree |-> FALSE, spawned |-> FALSE,
             needed |-> FALSE, seen |-> NoFile, found |-> FALSE,
             link |-> None, wrote |-> FALSE, http |-> "", size |-> 0,
             listing |-> NoListing]

\* The coroutine of a call the request handler makes.
CallTask(call) == [IdleTask EXCEPT !.op = call.op, !.pc = "start",
                      !.content = call.content, !.name = call.name,
                      !.mime = call.mime, !.level = call.level,
                      !.upd = call.upd, !.after = call.after,
                      !.size = call.size,
                      !.http = IF call.http = "this" THEN InterfaceName(adapter)
                               ELSE call.http]

\* self.processing_locks[checksum]: absent, or an asyncio.Lock (its _locked
\* flag, its FIFO of waiters, and the waiter release() has woken, 0 if none).
NoLock == [exists |-> FALSE, locked |-> FALSE, waiters |-> <<>>, wake |-> 0]

Key(t) == Checksum(tk[t].content)
Final(t) == tk[t].pc \in {"done", "failed"}
Alive(t) == tk[t].op # "none" /\ ~Final(t)

\* --------------------------------------------------- the metadata cache store
\* JsonDB.read(): a snapshot of one entry / of the whole document
CacheRead(c) == cache[c]
CacheDump == cache
\* "async with self.file_cache as db: db.files[checksum] = file_data"
CacheSet(c, fd) == [cache EXCEPT ![c] = fd]
\* "async with self.file_cache as db: del db.files[checksum]"
CacheDel(c) == [cache EXCEPT ![c] = NoFile]

\* ------------------------------------------------------------ asyncio.Lock
\* (a lock that looks only at its queue)
CanAcquireUnlockedOrNot(lk) == lk.waiters = <<>>
\* Lock.acquire() takes the lock without suspending when it is free and nobody
\* waits for it; otherwise the caller queues up.
CanAcquire(lk) == ~lk.locked /\ lk.waiters = <<>>
\* "if checksum not in self.processing_locks: ... = asyncio.Lock()"
EnsureLock(lk) == IF lk.exists THEN lk ELSE [NoLock EXCEPT !.exists = TRUE]
\* (a release that also drops the entry from the table)
ReleasedAndDropped(lk) == NoLock
\* Lock.release(): unlock and wake the first waiter
Released(lk) == [lk EXCEPT !.locked = FALSE,
                           !.wake = IF lk.waiters = <<>> THEN 0 ELSE Head(lk.waiters)]
\* (a flag that is set for every checksum that has a lock entry)
IsProcessingIfKnown(c) == locks[c].exists
\* "checksum in self.processing_locks and self.processing_locks[checksum].locked()"
IsProcessing(c) == locks[c].exists /\ locks[c].locked

\* ----------------------------------------------------------- task updates
Step(t, r) == tk' = [tk EXCEPT ![t] = r]
\* (an exception that is swallowed: the call returns normally)
Swallowed(t, e) == [tk[t] EXCEPT !.pc = "done"]
\* An exception leaves the coroutine: nothing the coroutine holds is given back.
Raised(t, e) == [tk[t] EXCEPT !.pc = "failed", !.err = e]

\* (a guard that never finds the work done)
AlwaysNeedsWork(fd, level) == TRUE

\* "if file_data.raw_ocr is None or (ensure_process == 'summary' and
\*     file_data.summary is None)"
NeedsWork(fd, level) == fd.raw_ocr = None \/ (level = "summary" /\ fd.summary = None)

\* (a derivation scheduled whatever the level)
ScheduleAlways(level, c) == ~locks[c].exists
\* "if ensure_process != 'none' and checksum not in self.processing_locks"
ShouldSchedule(level, c) == level # "none" /\ ~locks[c].exists
FreeBg == {b \in BgIds : tk[b].op = "none"}
\* asyncio.create_task(self.ensure_ocr(checksum, ensure_process, raw_file_data))
BgTask(t) == [IdleTask EXCEPT !.op = "ensure_ocr", !.pc = "eo_enter",
                 !.content = tk[t].content, !.rawc = tk[t].content,
                 !.mime = tk[t].mime, !.name = tk[t].name,
                 !.level = tk[t].level]
\* Step 3/4 of add_file, then the suspension in asyncio.sleep(0.1).
ScheduleAndSleep(t, r) ==
    LET c == Key(t)
        r1 == [r EXCEPT !.pc = "add_sleep",
                        !.sampledFree = (tk[t].level # "none" /\ ~locks[c].locked),
                        !.needed = (cache[c].present /\ NeedsWork(cache[c], tk[t].level)),
                        !.spawned = ShouldSchedule(tk[t].level, c)]
    IN  IF ShouldSchedule(tk[t].level, c)
        THEN /\ FreeBg # {}
             /\ LET b == CHOOSE x \in FreeBg : \A y \in FreeBg : x <= y
                IN  tk' = [tk EXCEPT ![t] = r1, ![b] = BgTask(t)]
        ELSE tk' = [tk EXCEPT ![t] = r1]

\* ------------------------------------------------------------- bootstrap
\* Which operations start with _ensure_layout / _ensure_folder_structure /
\* get_drive_service.
\* (every operation starting with the bootstrap)
BootsAlways(op) == TRUE
BootsAtStart(op) ==
    CASE adapter = "s3"     -> op \in {"add_file", "update_file_data", "delete_file",
                                       "download_file", "download_link", "search_files"}
      [] adapter = "local"  -> op \in {"add_file", "search_files"}
      [] adapter = "gdrive" -> op \in {"add_file", "download_file", "download_link",
                                       "search_files"}
FirstPc(op) ==
    CASE op = "add_file"         -> "add_read"
      [] op = "get_file_data"    -> "gfd_read"
      [] op = "update_file_data" -> "upd_cache"
      [] op = "delete_file"      -> "del_read"
      [] op = "file_exists"      -> "fe_read"
      [] op = "download_file"    -> "dl_read"
      [] op = "download_link"    -> "link_read"
      [] op = "search_files"     -> "sf_read"

CountBoot == [stats EXCEPT !.boots = @ + 1]
\* A bootstrap that replaces the cache drops or replaces the entries that differ
\* from its document; it is counted when some caller has finished the bootstrap
\* before.
Wipes(doc) == \E c \in Checksums : cache[c].present /\ doc[c] # cache[c]
NoteWipe(doc) == [stats EXCEPT !.wiped = @ \/ (initialized /\ Wipes(doc))]

\* Drive: the names _ensure_folder_structure queries for
DriveNames == {"folder", "metadata", "files"}
\* (a query that finds nothing)
ListedNever(name) == FALSE
\* "response = service.files().list(q=query, ...).execute();
\*  files = response.get('files', []); if files:"
Listed(name) == driveItems[name] > 0
\* "service.files().create(body=file_metadata, ...).execute()"
Created(items, name) == [items EXCEPT ![name] = @ + 1]

\* Drive, _ensure_folder_structure up to "async with self.file_cache": the
\* files().list / create / get_media calls are synchronous (.execute()).  The
\* metadata file is looked for inside the main folder, found or just created.
DriveStructure(t, r) ==
    /\ stats' = CountBoot
    /\ LET inFolder == IF Listed("folder") THEN driveItems ELSE Created(driveItems, "folder")
       IN  IF Listed("folder") /\ Listed("metadata")
           THEN /\ IF Parses(adapter, remote)
                   THEN Step(t, [r EXCEPT !.pc = "gd_cache", !.doc = Parsed(remote)])
                   ELSE Step(t, [r EXCEPT !.pc = "failed", !.err = "corrupt"])
                /\ driveItems' = inFolder
                /\ UNCHANGED <<remote, remoteExists>>
           ELSE /\ Step(t, [r EXCEPT !.pc = "gd_cache", !.doc = EmptyDoc])
                /\ driveItems' = Created(inFolder, "metadata")
                /\ remote' = EmptyDoc
                /\ remoteExists' = TRUE

\* ------------------------------------------------------ request handlers
\* "storage_interface: Literal['s3_1', 'local_1', 'gdrive_1']": a request whose
\* path names no instance is refused before its handler runs.
Routed(r) == r.http = "" \/ r.http \in InterfaceNames
\* 'file.content_type != "application/pdf" and not
\*  file.content_type.startswith("image/")' (negated)
AcceptedType(ctype) == ctype = Pdf \/ ctype = Png
\* upload_file's tests before "# Actually upload the file": a missing content
\* type, a missing size, a size over the limit, a type that is not accepted
Rejected(r) ==
    /\ r.http # "" /\ r.op = "add_file"
    /\ (r.mime = "" \/ r.size = 0 \/ r.size > MaxUploadSize \/ ~AcceptedType(r.mime))
\* The status of the response to a request.  Every handler wraps its body in
\* "try: ... except Exception as e: raise fastapi.HTTPException(status_code=500,
\* ...)", and the HTTPException(400) of upload_file's tests is raised inside
\* that try; 0: no response yet, or not a request.
Status(r) ==
    CASE r.http = ""     -> 0
      [] r.err = "route" -> 422
      [] r.pc = "failed" -> 500
      [] r.pc = "done"   -> 200
      [] OTHER           -> 0

\* The first stretch of a call: the handler's own tests, then the initialized
\* test of the bootstrap.
Begin(t) ==
    /\ tk[t].pc = "start"
    /\ tk[t].after # 0 => Final(tk[t].after)
    /\ LET r == [tk[t] EXCEPT !.ret = FirstPc(tk[t].op)]
           go == [r EXCEPT !.pc = r.ret]
       IN  IF ~Routed(tk[t]) \/ Rejected(tk[t])
           THEN /\ Step(t, Raised(t, IF Routed(tk[t]) THEN "rejected" ELSE "route"))
                /\ UNCHANGED <<remote, remoteExists, driveItems, layoutLock, stats>>
           ELSE
           IF ~BootsAtStart(tk[t].op) \/ (initialized /\ (adapter = "gdrive" => driveService))
           THEN /\ Step(t, go)
                /\ UNCHANGED <<remote, remoteExists, driveItems, layoutLock, stats>>
           ELSE CASE adapter = "s3" ->
                      IF layoutLock = 0
                      THEN /\ layoutLock' = t
                           /\ stats' = CountBoot
                           /\ Step(t, [r EXCEPT !.pc = "lay_get"])
                           /\ UNCHANGED <<remote, remoteExists, driveItems>>
                      ELSE /\ Step(t, [r EXCEPT !.pc = "lay_wait"])
                           /\ UNCHANGED <<remote, remoteExists, driveItems, layoutLock, stats>>
                  [] adapter = "local" ->
                      /\ Step(t, [r EXCEPT !.pc = "fs_exists"])
                      /\ stats' = CountBoot
                      /\ UNCHANGED <<remote, remoteExists, driveItems, layoutLock>>
                  [] adapter = "gdrive" ->
                      IF ~driveService
                      THEN /\ Step(t, [r EXCEPT !.pc = "gd_cred"])
                           /\ UNCHANGED <<remote, remoteExists, driveItems, layoutLock, stats>>
                      ELSE /\ DriveStructure(t, r)
                           /\ UNCHANGED layoutLock
    /\ UNCHANGED <<adapter, cache, store, shared, nextDriveId, initialized, driveService,
                   locks, failsLeft>>

\* S3: a waiter gets self._layout_lock and runs the second initialized test.
LayWait(t) ==
    /\ tk[t].pc = "lay_wait"
    /\ layoutLock = 0
    /\ IF initialized
       THEN /\ Step(t, [tk[t] EXCEPT !.pc = tk[t].ret])
            /\ UNCHANGED <<layoutLock, stats>>
       ELSE /\ layoutLock' = t
            /\ stats' = CountBoot
            /\ Step(t, [tk[t] EXCEPT !.pc = "lay_get"])
    /\ UNCHANGED <<adapter, driveItems, cache, remote, remoteExists, store, shared, nextDriveId,
                   initialized, driveService, locks, failsLeft>>

\* S3: client.get_object(Key=self._metadata_key), the body is read and parsed;
\* an exception leaves "async with self._layout_lock", which frees the lock.
LayGet(t) ==
    /\ tk[t].pc = "lay_get"
    /\ IF remoteExists
       THEN IF Parses(adapter, remote)
            THEN /\ Step(t, [tk[t] EXCEPT !.pc = "lay_cache", !.doc = Parsed(remote)])
                 /\ UNCHANGED layoutLock
            ELSE /\ Step(t, Raised(t, "corrupt"))
                 /\ layoutLock' = 0
       ELSE /\ Step(t, [tk[t] EXCEPT !.pc = "lay_put"])
            /\ UNCHANGED layoutLock
    /\ UNCHANGED <<adapter, driveItems, cache, remote, remoteExists, store, shared, nextDriveId,
                   initialized, driveService, locks, failsLeft, stats>>

\* S3: NoSuchKey: client.put_object(Body=b'{"files":{}}')
LayPut(t) ==
    /\ tk[t].pc = "lay_put"
    /\ remote' = EmptyDoc
    /\ remoteExists' = TRUE
    /\ Step(t, [tk[t] EXCEPT !.pc = "lay_cache", !.doc = EmptyDoc])
    /\ UNCHANGED <<adapter, driveItems, cache, store, shared, nextDriveId, initialized, layoutLock,
                   driveService, locks, failsLeft, stats>>

\* S3: "db.files = files_dict", self._layout_initialized = True, lock released
LayCache(t) ==
    /\ tk[t].pc = "lay_cache"
    /\ cache' = tk[t].doc
    /\ stats' = NoteWipe(tk[t].doc)
    /\ initialized' = TRUE
    /\ layoutLock' = 0
    /\ Step(t, [tk[t] EXCEPT !.pc = tk[t].ret, !.doc = EmptyDoc])
    /\ UNCHANGED <<adapter, driveItems, remote, remoteExists, store, shared, nextDriveId, driveService,
                   locks, failsLeft>>

\* local: os.makedirs twice, then os.path.exists(self.metadata_file_path)
FsExists(t) ==
    /\ tk[t].pc = "fs_exists"
    /\ Step(t, [tk[t] EXCEPT !.pc = IF remoteExists THEN "fs_read" ELSE "fs_reset"])
    /\ UNCHANGED <<adapter, driveItems, cache, remote, remoteExists, store, shared, nextDriveId,
                   initialized, layoutLock, driveService, locks, failsLeft, stats>>

\* local: read and parse the metadata file
FsRead(t) ==
    /\ tk[t].pc = "fs_read"
    /\ IF Parses(adapter, remote)
       THEN Step(t, [tk[t] EXCEPT !.pc = "fs_load", !.doc = Parsed(remote)])
       ELSE Step(t, Raised(t, "corrupt"))
    /\ UNCHANGED <<adapter, driveItems, cache, remote, remoteExists, store, shared, nextDriveId,
                   initialized, layoutLock, driveService, locks, failsLeft, stats>>

\* local: "db.files = files_dict", then self._folder_initialized = True
FsLoad(t) ==
    /\ tk[t].pc = "fs_load"
    /\ cache' = tk[t].doc
    /\ stats' = NoteWipe(tk[t].doc)
    /\ initialized' = TRUE
    /\ Step(t, [tk[t] EXCEPT !.pc = tk[t].ret, !.doc = EmptyDoc])
    /\ UNCHANGED <<adapter, driveItems, remote, remoteExists, store, shared, nextDriveId, layoutLock,
                   driveService, locks, failsLeft>>

\* local: no metadata file: "db.files = {}"
FsReset(t) ==
    /\ tk[t].pc = "fs_reset"
    /\ cache' = EmptyDoc
    /\ stats' = NoteWipe(EmptyDoc)
    /\ Step(t, [tk[t] EXCEPT !.pc = "fs_save_read"])
    /\ UNCHANGED <<adapter, driveItems, remote, remoteExists, store, shared, nextDriveId, initialized,
                   layoutLock, driveService, locks, failsLeft>>

\* local: _save_metadata: cache = await self.file_cache.read()
FsSaveRead(t) ==
    /\ tk[t].pc = "fs_save_read"
    /\ Step(t, [tk[t] EXCEPT !.pc = "fs_save_write", !.doc = CacheDump])
    /\ UNCHANGED <<adapter, driveItems, cache, remote, remoteExists, store, shared, nextDriveId,
                   initialized, layoutLock, driveService, locks, failsLeft, stats>>

\* local: _save_metadata: write the file; self._folder_initialized = True
FsSaveWrite(t) ==
    /\ tk[t].pc = "fs_save_write"
    /\ remote' = tk[t].doc
    /\ remoteExists' = TRUE
    /\ initialized' = TRUE
    /\ Step(t, [tk[t] EXCEPT !.pc = tk[t].ret, !.doc = EmptyDoc])
    /\ UNCHANGED <<adapter, driveItems, cache, store, shared, nextDriveId, layoutLock, driveService,
                   locks, failsLeft, stats>>

\* Drive: oauth_client.get_credentials() returns; the service is built; then
\* "if not self._folder_initialized" runs the structure check.
GdCred(t) ==
    /\ tk[t].pc = "gd_cred"
    /\ driveService' = TRUE
    /\ IF initialized
       THEN /\ Step(t, [tk[t] EXCEPT !.pc = tk[t].ret])
            /\ UNCHANGED <<remote, remoteExists, driveItems, stats>>
       ELSE DriveStructure(t, tk[t])
    /\ UNCHANGED <<adapter, cache, store, shared, nextDriveId, initialized, layoutLock,
                   locks, failsLeft>>

\* Drive: "async with self.file_cache as db: db.files = files_dict" (or {})
GdCache(t) ==
    /\ tk[t].pc = "gd_cache"
    /\ cache' = tk[t].doc
    /\ stats' = NoteWipe(tk[t].doc)
    /\ Step(t, [tk[t] EXCEPT !.pc = "gd_folder", !.doc = EmptyDoc])
    /\ UNCHANGED <<adapter, driveItems, remote, remoteExists, store, shared, nextDriveId, initialized,
                   layoutLock, driveService, locks, failsLeft>>

\* Drive: the files sub-folder; then self._folder_initialized = True
GdFolder(t) ==
    /\ tk[t].pc = "gd_folder"
    /\ driveItems' = IF Listed("files") THEN driveItems ELSE Created(driveItems, "files")
    /\ initialized' = TRUE
    /\ Step(t, [tk[t] EXCEPT !.pc = tk[t].ret])
    /\ UNCHANGED <<adapter, cache, remote, remoteExists, store, shared, nextDriveId,
                   layoutLock, driveService, locks, failsLeft, stats>>

\* ---------------------------------------------------------------- add_file
\* The reference of the object add_file uploads.
UploadRef(c, name) ==
    CASE adapter = "s3"     -> S3Key(c, name)
      [] adapter = "local"  -> LocalPath(c, name)
      [] adapter = "gdrive" -> DriveId(nextDriveId)
\* put_object / open(file_path, "wb") / files().create(): an object under an
\* existing key or path is overwritten.
Put(ref, content) == {o \in store : o[1] # ref} \cup {<<ref, content>>}
\* delete_object / os.remove
Removed(ref) == {o \in store : o[1] # ref}
Fetch(ref) == {o[2] : o \in {x \in store : x[1] = ref}}

\* (an upload that never finds the checksum)
KnownNever(fd) == FALSE
\* "if checksum not in cache.files" (negated)
Known(fd) == fd.present

\* "cache = await self.file_cache.read()" and the test; a known checksum goes
\* straight to step 4.
AddRead(t) ==
    /\ tk[t].pc = "add_read"
    /\ LET fd == CacheRead(Key(t))
       IN  IF Known(fd)
           THEN ScheduleAndSleep(t, [tk[t] EXCEPT !.fd = fd])
           ELSE Step(t, [tk[t] EXCEPT !.pc = "add_upload"])
    /\ UNCHANGED <<adapter, driveItems, cache, remote, remoteExists, store, shared, nextDriveId,
                   initialized, layoutLock, driveService, locks, failsLeft, stats>>

\* the upload, and "file_data = FileData(..., raw_ocr=None, summary=None)"
AddUpload(t) ==
    /\ tk[t].pc = "add_upload"
    /\ LET ref == UploadRef(Key(t), tk[t].name)
       IN  /\ store' = Put(ref, tk[t].content)
           /\ Step(t, [tk[t] EXCEPT !.pc = "afd_cache", !.uploaded = TRUE,
                                    !.fd = NewFileData(ref, tk[t].name, tk[t].mime)])
    /\ nextDriveId' = IF adapter = "gdrive" THEN nextDriveId + 1 ELSE nextDriveId
    /\ stats' = [stats EXCEPT !.uploads[Key(t)] = @ + 1]
    /\ UNCHANGED <<adapter, driveItems, cache, remote, remoteExists, shared, initialized, layoutLock,
                   driveService, locks, failsLeft>>

\* add_file_data: "async with self.file_cache as db: db.files[checksum] = file_data"
\* (reached from add_file and from ensure_ocr)
PutCache(t) ==
    /\ tk[t].pc \in {"afd_cache", "eo_cache"}
    /\ cache' = CacheSet(Key(t), tk[t].fd)
    /\ Step(t, [tk[t] EXCEPT !.pc = "sync_read", !.wrote = TRUE])
    /\ UNCHANGED <<adapter, driveItems, remote, remoteExists, store, shared, nextDriveId, initialized,
                   layoutLock, driveService, locks, failsLeft, stats>>

\* "cache = await self.file_cache.read(); payload = cache.model_dump_json()"
SyncRead(t) ==
    /\ tk[t].pc = "sync_read"
    /\ Step(t, [tk[t] EXCEPT !.pc = "sync_put", !.doc = CacheDump])
    /\ UNCHANGED <<adapter, driveItems, cache, remote, remoteExists, store, shared, nextDriveId,
                   initialized, layoutLock, driveService, locks, failsLeft, stats>>

\* The end of ensure_ocr: self.processing_locks[checksum].release()
Leave(t, r) ==
    /\ locks' = [locks EXCEPT ![Key(t)] = Released(@)]
    /\ Step(t, [r EXCEPT !.holds = FALSE,
                         !.pc = IF tk[t].op = "ensure_ocr" THEN "done" ELSE "gfd_reread"])

\* What follows the remote write, up to the next suspension or the return.
AfterSync(t, r) ==
    CASE tk[t].op = "add_file" ->
            /\ ScheduleAndSleep(t, r)
            /\ UNCHANGED locks
      [] tk[t].op \in {"ensure_ocr", "get_file_data"} ->
            Leave(t, r)
      [] OTHER ->
            /\ Step(t, [r EXCEPT !.pc = "done"])
            /\ UNCHANGED locks

\* the remote write of the whole document: put_object(Key=self._metadata_key) /
\* _save_metadata's write / files().update(fileId=self._file_metadata_id)
SyncPut(t) ==
    /\ tk[t].pc = "sync_put"
    /\ remote' = tk[t].doc
    /\ remoteExists' = TRUE
    /\ AfterSync(t, [tk[t] EXCEPT !.doc = EmptyDoc])
    /\ UNCHANGED <<adapter, driveItems, cache, store, shared, nextDriveId, initialized, layoutLock,
                   driveService, failsLeft, stats>>

\* the remote write raises (a backend failure)
SyncPutFails(t) ==
    /\ tk[t].pc = "sync_put"
    /\ failsLeft > 0
    /\ failsLeft' = failsLeft - 1
    /\ Step(t, [Raised(t, "backend") EXCEPT !.doc = EmptyDoc])
    /\ UNCHANGED <<adapter, driveItems, cache, remote, remoteExists, store, shared, nextDriveId,
                   initialized, layoutLock, driveService, locks, stats>>

\* asyncio.sleep(0.1) is over: "return FileDataResponse(...)"
AddReturn(t) ==
    /\ tk[t].pc = "add_sleep"
    /\ Step(t, [tk[t] EXCEPT !.pc = "done", !.isproc = IsProcessing(Key(t))])
    /\ UNCHANGED <<adapter, driveItems, cache, remote, remoteExists, store, shared, nextDriveId,
                   initialized, layoutLock, driveService, locks, failsLeft, stats>>

\* -------------------------------------------------------------- ensure_ocr
\* With raw_file_data at hand, the code up to the next await: the MIME test,
\* the sentinel for an unsupported type, and which collaborator comes first.
WithRaw(r, mime) ==
    IF SupportedMime(mime)
    THEN IF r.fd.raw_ocr = None
         THEN [r EXCEPT !.pc = "eo_ocr"]
         ELSE IF r.level = "summary" /\ r.fd.summary = None
              THEN [r EXCEPT !.pc = "eo_sum"]
              ELSE [r EXCEPT !.pc = "eo_cache"]
    ELSE [r EXCEPT !.pc = "eo_cache",
                   !.fd = [r.fd EXCEPT !.raw_ocr = Unsupported(mime),
                                       !.summary = Unsupported(mime)]]

\* "file = await self.file_cache.read()", the not-found test, the lazy creation
\* of the lock and processing_locks[checksum].acquire().  The read and the code
\* after it are one step: nothing the code does between them can be observed.
EoEnter(t) ==
    /\ tk[t].pc = "eo_enter"
    /\ LET c == Key(t)
           lk == EnsureLock(locks[c])
       IN  IF ~CacheRead(c).present
           THEN /\ Step(t, Raised(t, "notfound"))
                /\ UNCHANGED locks
           ELSE IF CanAcquire(lk)
                THEN /\ locks' = [locks EXCEPT ![c] = [lk EXCEPT !.locked = TRUE]]
                     /\ Step(t, [tk[t] EXCEPT !.pc = "eo_guard", !.holds = TRUE])
                ELSE /\ locks' = [locks EXCEPT ![c] = [lk EXCEPT !.waiters = Append(@, t)]]
                     /\ Step(t, [tk[t] EXCEPT !.pc = "eo_wait"])
    /\ UNCHANGED <<adapter, driveItems, cache, remote, remoteExists, store, shared, nextDriveId,
                   initialized, layoutLock, driveService, failsLeft, stats>>

\* A waiter woken by release() takes the lock.
EoWake(t) ==
    /\ tk[t].pc = "eo_wait"
    /\ locks[Key(t)].wake = t
    /\ locks' = [locks EXCEPT ![Key(t)] =
                    [@ EXCEPT !.locked = TRUE, !.wake = 0, !.waiters = Tail(@)]]
    /\ Step(t, [tk[t] EXCEPT !.pc = "eo_guard", !.holds = TRUE])
    /\ UNCHANGED <<adapter, driveItems, cache, remote, remoteExists, store, shared, nextDriveId,
                   initialized, layoutLock, driveService, failsLeft, stats>>

\* "file_data = await self.get_file_data(checksum)" and the test on its fields
EoGuard(t) ==
    /\ tk[t].pc = "eo_guard"
    /\ LET fd == CacheRead(Key(t))
           r  == [tk[t] EXCEPT !.fd = fd, !.seen = fd]
       IN  IF ~fd.present
           THEN /\ Step(t, Raised(t, "notfound"))
                /\ UNCHANGED locks
           ELSE IF ~NeedsWork(fd, tk[t].level)
                THEN Leave(t, r)
                ELSE /\ UNCHANGED locks
                     /\ IF tk[t].rawc = ""
                        THEN Step(t, [r EXCEPT !.pc = "eo_download"])
                        ELSE Step(t, WithRaw(r, tk[t].mime))
    /\ UNCHANGED <<adapter, driveItems, cache, remote, remoteExists, store, shared, nextDriveId,
                   initialized, layoutLock, driveService, failsLeft, stats>>

\* "raw_file_data = await self.download_file(checksum)": the entry is read
\* again and the object is fetched by its reference.
EoDownload(t) ==
    /\ tk[t].pc = "eo_download"
    /\ LET fd == CacheRead(Key(t))
       IN  IF ~fd.present
           THEN Step(t, Raised(t, "notfound"))
           ELSE IF Fetch(fd.ref) = {}
                THEN Step(t, Raised(t, "backend"))
                ELSE \E content \in Fetch(fd.ref) :
                        Step(t, WithRaw([tk[t] EXCEPT !.rawc = content, !.mime = fd.mime,
                                                      !.name = fd.name], fd.mime))
    /\ UNCHANGED <<adapter, driveItems, cache, remote, remoteExists, store, shared, nextDriveId,
                   initialized, layoutLock, driveService, locks, failsLeft, stats>>

\* the download raises (a backend failure)
EoDownloadFails(t) ==
    /\ tk[t].pc = "eo_download"
    /\ failsLeft > 0
    /\ failsLeft' = failsLeft - 1
    /\ Step(t, Raised(t, "backend"))
    /\ UNCHANGED <<adapter, driveItems, cache, remote, remoteExists, store, shared, nextDriveId,
                   initialized, layoutLock, driveService, locks, stats>>

\* (an extraction always followed by the summarizer)
EoOcrThenSum(t) ==
    /\ tk[t].pc = "eo_ocr"
    /\ stats' = [stats EXCEPT !.ocr[Key(t)] = @ + 1]
    /\ Step(t, [tk[t] EXCEPT !.fd.raw_ocr = OcrText(tk[t].rawc), !.pc = "eo_sum"])
    /\ UNCHANGED <<adapter, driveItems, cache, remote, remoteExists, store, shared, nextDriveId,
                   initialized, layoutLock, driveService, locks, failsLeft>>

\* "raw_ocr = await modules.ocr.process_document(...)"; file_data.raw_ocr = raw_ocr
EoOcr(t) ==
    /\ tk[t].pc = "eo_ocr"
    /\ stats' = [stats EXCEPT !.ocr[Key(t)] = @ + 1]
    /\ LET r == [tk[t] EXCEPT !.fd.raw_ocr = OcrText(tk[t].rawc)]
       IN  Step(t, [r EXCEPT !.pc = IF r.level = "summary" /\ r.fd.summary = None
                                    THEN "eo_sum" ELSE "eo_cache"])
    /\ UNCHANGED <<adapter, driveItems, cache, remote, remoteExists, store, shared, nextDriveId,
                   initialized, layoutLock, driveService, locks, failsLeft>>

\* the extraction collaborator raises
EoOcrFails(t) ==
    /\ tk[t].pc = "eo_ocr"
    /\ failsLeft > 0
    /\ failsLeft' = failsLeft - 1
    /\ stats' = [stats EXCEPT !.ocr[Key(t)] = @ + 1]
    /\ Step(t, Raised(t, "ocr"))
    /\ UNCHANGED <<adapter, driveItems, cache, remote, remoteExists, store, shared, nextDriveId,
                   initialized, layoutLock, driveService, locks>>

\* "new_summary = await modules.ocr.summarize_document(file_data.raw_ocr)"
EoSum(t) ==
    /\ tk[t].pc = "eo_sum"
    /\ stats' = [stats EXCEPT !.sum[Key(t)] = @ + 1]
    /\ Step(t, [tk[t] EXCEPT !.pc = "eo_cache",
                             !.fd.summary = SummaryOf(tk[t].fd.raw_ocr)])
    /\ UNCHANGED <<adapter, driveItems, cache, remote, remoteExists, store, shared, nextDriveId,
                   initialized, layoutLock, driveService, locks, failsLeft>>

\* (a failing summarization that leaves the fresh raw_ocr in the cache entry)
EoSumFailsLeavingOcr(t) ==
    /\ tk[t].pc = "eo_sum"
    /\ failsLeft > 0
    /\ failsLeft' = failsLeft - 1
    /\ stats' = [stats EXCEPT !.sum[Key(t)] = @ + 1]
    /\ cache' = CacheSet(Key(t), tk[t].fd)
    /\ Step(t, Raised(t, "summarize"))
    /\ UNCHANGED <<adapter, driveItems, remote, remoteExists, store, shared, nextDriveId,
                   initialized, layoutLock, driveService, locks>>

\* the summarization collaborator raises
EoSumFails(t) ==
    /\ tk[t].pc = "eo_sum"
    /\ failsLeft > 0
    /\ failsLeft' = failsLeft - 1
    /\ stats' = [stats EXCEPT !.sum[Key(t)] = @ + 1]
    /\ Step(t, Raised(t, "summarize"))
    /\ UNCHANGED <<adapter, driveItems, cache, remote, remoteExists, store, shared, nextDriveId,
                   initialized, layoutLock, driveService, locks>>

\* ----------------------------------------------------------- get_file_data
\* (a get_file_data that enters ensure_ocr whatever the level)
GfdReadThenEnsure(t) ==
    /\ tk[t].pc = "gfd_read"
    /\ IF ~CacheRead(Key(t)).present
       THEN Step(t, Raised(t, "notfound"))
       ELSE Step(t, [tk[t] EXCEPT !.pc = "eo_enter"])
    /\ UNCHANGED <<adapter, driveItems, cache, remote, remoteExists, store, shared, nextDriveId,
                   initialized, layoutLock, driveService, locks, failsLeft, stats>>

\* "cache = await self.file_cache.read()", the not-found test, and for
\* ensure_process = "none" the return
\* (isproc notes whether the processing lock was held at that return)
GfdRead(t) ==
    /\ tk[t].pc = "gfd_read"
    /\ LET fd == CacheRead(Key(t))
       IN  IF ~fd.present
           THEN Step(t, Raised(t, "notfound"))
           ELSE IF tk[t].level = "none"
                THEN Step(t, [tk[t] EXCEPT !.pc = "done", !.fd = fd,
                                           !.isproc = locks[Key(t)].locked])
                ELSE Step(t, [tk[t] EXCEPT !.pc = "eo_enter"])
    /\ UNCHANGED <<adapter, driveItems, cache, remote, remoteExists, store, shared, nextDriveId,
                   initialized, layoutLock, driveService, locks, failsLeft, stats>>

\* "cache = await self.file_cache.read()  # Reread"; return cache.files[checksum]
GfdReread(t) ==
    /\ tk[t].pc = "gfd_reread"
    /\ LET fd == CacheRead(Key(t))
       IN  IF ~fd.present
           THEN Step(t, Raised(t, "notfound"))
           ELSE Step(t, [tk[t] EXCEPT !.pc = "done", !.fd = fd])
    /\ UNCHANGED <<adapter, driveItems, cache, remote, remoteExists, store, shared, nextDriveId,
                   initialized, layoutLock, driveService, locks, failsLeft, stats>>

\* -------------------------------------------------------- update_file_data
\* updates.items(), in the order of the dict
Keys(upd) ==
    CASE upd = "bogus"      -> <<"bogus">>
      [] upd = "name,bogus" -> <<"name", "bogus">>
      [] OTHER              -> <<upd>>
\* "hasattr(db.files[checksum], key)"
HasAttr(key) == key \in {"file_reference", "name", "mime_type", "size", "modified_time",
                         "raw_ocr", "summary"}
\* the first key of the updates that the loop raises on (0: none)
FirstInvalid(upd) ==
    IF \A i \in 1..Len(Keys(upd)) : HasAttr(Keys(upd)[i]) THEN 0
    ELSE CHOOSE i \in 1..Len(Keys(upd)) :
            ~HasAttr(Keys(upd)[i]) /\ \A j \in 1..(i - 1) : HasAttr(Keys(upd)[j])
\* "setattr(db.files[checksum], key, value)"
SetAttr(fd, key) ==
    CASE key = "summary" -> [fd EXCEPT !.summary = <<"edited">>]
      [] key = "raw_ocr" -> [fd EXCEPT !.raw_ocr = <<"edited">>]
      [] key = "name"    -> [fd EXCEPT !.name = "n2"]
      [] OTHER           -> fd
RECURSIVE SetAttrs(_, _, _)
SetAttrs(fd, keys, n) ==
    IF n = 0 THEN fd ELSE SetAttr(SetAttrs(fd, keys, n - 1), keys[n])
\* "for key, value in updates.items(): if hasattr(...): setattr(...) else:
\* raise": the entry as the loop leaves it, with the keys before the first
\* invalid one set
Updated(fd, upd) ==
    SetAttrs(fd, Keys(upd),
             IF FirstInvalid(upd) = 0 THEN Len(Keys(upd)) ELSE FirstInvalid(upd) - 1)

\* "async with self.file_cache as db: if checksum in db.files: ... else: raise"
\* (db is the cache the scope works on: what the loop set before it raised is
\* in the cache when the scope is left)
UpdCache(t) ==
    /\ tk[t].pc = "upd_cache"
    /\ IF ~cache[Key(t)].present
       THEN /\ Step(t, Raised(t, "notfound"))
            /\ UNCHANGED cache
       ELSE /\ cache' = CacheSet(Key(t), Updated(cache[Key(t)], tk[t].upd))
            /\ IF FirstInvalid(tk[t].upd) # 0
               THEN Step(t, Raised(t, "invalid"))
               ELSE Step(t, [tk[t] EXCEPT !.pc = "sync_read"])
    /\ UNCHANGED <<adapter, driveItems, remote, remoteExists, store, shared, nextDriveId, initialized,
                   layoutLock, driveService, locks, failsLeft, stats>>

\* ------------------------------------------------------------- delete_file
\* "file_data = await self.get_file_data(checksum)"; the Drive adapter's
\* delete_file ends here.
DelRead(t) ==
    /\ tk[t].pc = "del_read"
    /\ LET fd == CacheRead(Key(t))
       IN  IF ~fd.present
           THEN Step(t, Raised(t, "notfound"))
           ELSE Step(t, [tk[t] EXCEPT !.fd = fd,
                            !.pc = IF adapter = "gdrive" THEN "done" ELSE "del_object"])
    /\ UNCHANGED <<adapter, driveItems, cache, remote, remoteExists, store, shared, nextDriveId,
                   initialized, layoutLock, driveService, locks, failsLeft, stats>>

\* client.delete_object(Key=key) / os.remove(file_path)
DelObject(t) ==
    /\ tk[t].pc = "del_object"
    /\ store' = Removed(tk[t].fd.ref)
    /\ Step(t, [tk[t] EXCEPT !.pc = "del_cache"])
    /\ UNCHANGED <<adapter, driveItems, cache, remote, remoteExists, shared, nextDriveId, initialized,
                   layoutLock, driveService, locks, failsLeft, stats>>

\* "async with self.file_cache as db: if checksum in db.files: del db.files[checksum]"
DelCache(t) ==
    /\ tk[t].pc = "del_cache"
    /\ cache' = CacheDel(Key(t))
    /\ Step(t, [tk[t] EXCEPT !.pc = "sync_read"])
    /\ UNCHANGED <<adapter, driveItems, remote, remoteExists, store, shared, nextDriveId, initialized,
                   layoutLock, driveService, locks, failsLeft, stats>>

\* ------------------------------------------------------------ search_files
\* "cache = await self.file_cache.read()" and the list comprehension over
\* cache.files.items()
Listing == [c \in Checksums |-> [fd |-> CacheRead(c), isproc |-> IsProcessing(c)]]
SearchRead(t) ==
    /\ tk[t].pc = "sf_read"
    /\ Step(t, [tk[t] EXCEPT !.pc = "done", !.listing = Listing])
    /\ UNCHANGED <<adapter, driveItems, cache, remote, remoteExists, store, shared, nextDriveId,
                   initialized, layoutLock, driveService, locks, failsLeft, stats>>

\* ------------------------------------------------------------- file_exists
\* "cache = await self.file_cache.read(); return checksum in cache.files"
FeRead(t) ==
    /\ tk[t].pc = "fe_read"
    /\ Step(t, [tk[t] EXCEPT !.pc = "done", !.found = CacheRead(Key(t)).present])
    /\ UNCHANGED <<adapter, driveItems, cache, remote, remoteExists, store, shared, nextDriveId,
                   initialized, layoutLock, driveService, locks, failsLeft, stats>>

\* ----------------------------------------------------------- download_file
\* What download_file returns for the entry fd, or the failure of the fetch.
Fetched(t, fd) ==
    IF Fetch(fd.ref) = {}
    THEN {Raised(t, "backend")}
    ELSE {[tk[t] EXCEPT !.pc = "done", !.fd = fd, !.rawc = content,
                        !.name = fd.name, !.mime = fd.mime] : content \in Fetch(fd.ref)}

\* "file_data = await self.get_file_data(checksum)"; the Drive adapter fetches
\* the media without another suspension (next_chunk() is synchronous).
DlRead(t) ==
    /\ tk[t].pc = "dl_read"
    /\ LET fd == CacheRead(Key(t))
       IN  IF ~fd.present
           THEN Step(t, Raised(t, "notfound"))
           ELSE IF adapter = "gdrive"
                THEN \E r \in Fetched(t, fd) : Step(t, r)
                ELSE Step(t, [tk[t] EXCEPT !.pc = "dl_fetch", !.fd = fd])
    /\ UNCHANGED <<adapter, driveItems, cache, remote, remoteExists, store, shared, nextDriveId,
                   initialized, layoutLock, driveService, locks, failsLeft, stats>>

\* S3: client.get_object(Key=key) and the body; local: os.path.exists and the
\* read of the file (a missing file fails the call either way)
DlFetch(t) ==
    /\ tk[t].pc = "dl_fetch"
    /\ \E r \in Fetched(t, tk[t].fd) : Step(t, r)
    /\ UNCHANGED <<adapter, driveItems, cache, remote, remoteExists, store, shared, nextDriveId,
                   initialized, layoutLock, driveService, locks, failsLeft, stats>>

\* ----------------------------------------------------------- download_link
\* The locator each adapter returns.
LinkOf(ref) ==
    CASE adapter = "s3"     -> <<"presigned", ref>>
      [] adapter = "local"  -> <<"local://", ref>>
      [] adapter = "gdrive" -> <<"webContentLink", ref>>

\* "file_data = await self.get_file_data(checksum)", then the locator: a
\* presigned URL, "local://" + reference, or on Drive permissions().create()
\* and files().get() (synchronous; any failure becomes a ValueError)
LinkRead(t) ==
    /\ tk[t].pc = "link_read"
    /\ LET fd == CacheRead(Key(t))
       IN  IF ~fd.present
           THEN /\ Step(t, Raised(t, "notfound"))
                /\ UNCHANGED shared
           ELSE IF adapter = "gdrive" /\ Fetch(fd.ref) = {}
                THEN /\ Step(t, Raised(t, "backend"))
                     /\ UNCHANGED shared
                ELSE /\ Step(t, [tk[t] EXCEPT !.pc = "done", !.fd = fd,
                                              !.link = LinkOf(fd.ref)])
                     /\ shared' = IF adapter = "gdrive" THEN shared \cup {fd.ref}
                                  ELSE shared
    /\ UNCHANGED <<adapter, driveItems, cache, remote, remoteExists, store, nextDriveId,
                   initialized, layoutLock, driveService, locks, failsLeft, stats>>

\* --------------------------------------------------------------- workloads
\* The calls the request handlers make in one behaviour, and how many failures
\* the environment may inject into it.
Workload(calls, fails) == [calls |-> calls, fails |-> fails]

\* concurrent uploads of the same new bytes, each asking for the summary
AddThrice == Workload(<<Add("A", "n1", Pdf, "summary", 0),
                        Add("A", "n1", Pdf, "summary", 0),
                        Add("A", "n1", Pdf, "summary", 0)>>, 0)
\* the same bytes uploaded under two MIME types
AddTwoMimes == Workload(<<Add("A", "n1", Pdf, "ocr", 0),
                          Add("A", "n1", Txt, "summary", 0)>>, 0)
\* an upload, then polling for the derived data, with a failure
AddThenGet == {Workload(<<Add("A", "n1", Pdf, l1, 0), Get("A", l2, 1), Get("A", "ocr", 0)>>, MaxFailures)
                 : l1 \in {"none", "ocr"}, l2 \in {"ocr", "summary"}}
\* two uploads of the same bytes, one after the other
AddTwice == {Workload(<<Add("A", "n1", Pdf, l1, 0), Add("A", n, m, l2, 1)>>, 0)
               : l1 \in Levels, l2 \in Levels, n \in Names, m \in {Pdf, Txt}}
\* an upload, an update and a deletion
AddUpdateDelete == {Workload(<<Add("A", "n1", Pdf, l, 0), Update("A", u, 0), Delete("A", 0)>>, 0)
                      : l \in {"none", "ocr"}, u \in Updates}

\* an upload, its deletion, then a look at the checksum
DeleteThenLook == {Workload(<<Add("A", "n1", Pdf, "none", 0), Delete("A", 1), look>>, 0)
                     : look \in {Exists("A", 2), Get("A", "none", 2), Download("A", 2)}}
\* calls about a checksum nobody uploaded, next to an upload of other bytes
AbsentCalls == {Workload(<<Add("A", "n1", Pdf, "ocr", 0), call>>, 0)
                  : call \in {Get("B", l, 0) : l \in Levels}
                            \cup {Download("B", 0), Link("B", 0), Delete("B", 0)}}
\* an upload, then its download or its link; an upload of other bytes may run
\* next to them
RoundTrip == {Workload(<<Add(c, n, m, l, 0), Download(c, 1)>>, 0)
                : c \in Contents, n \in Names, m \in {Pdf, Txt}, l \in {"none", "ocr"}}
             \cup {Workload(<<Add("A", "n1", Pdf, "none", 0), look, Add("B", "n1", Pdf, "none", 0)>>, 0)
                     : look \in {Download("A", 1), Link("A", 1)}}
\* the same bytes uploaded concurrently under two names
AddTwoNames == Workload(<<Add("A", "n1", Pdf, "none", 0), Add("A", "n2", Pdf, "none", 0)>>, 0)
\* an upload with its derivation, and the deletion of the file once the upload
\* returned
AddThenDelete == Workload(<<Add("A", "n1", Pdf, "ocr", 0), Delete("A", 1)>>, 0)
\* an upload with its derivation, and an update of the entry once the upload
\* returned
AddThenUpdate == {Workload(<<Add("A", "n1", Pdf, "ocr", 0), Update("A", u, 1)>>, 0)
                    : u \in {"name", "summary"}}
\* an update that names no FileData attribute, alone or after a valid key, of
\* an uploaded checksum or of one nobody uploaded; an update as the first call
BadUpdates == {Workload(<<Add("A", "n1", Pdf, "none", 0), Update(c, u, 1)>>, 0)
                 : c \in Contents, u \in {"bogus", "name,bogus"}}
              \cup {Workload(<<Update("A", "name", 0)>>, 0)}
\* a look at the metadata, with no derivation asked for, once the upload
\* has returned and its derivation runs
GetWhileDeriving == {Workload(<<Add("A", "n1", Pdf, l, 0), Get("A", "none", 1)>>, 0)
                       : l \in {"ocr", "summary"}}
\* uploads of different bytes at the same time
AddBoth == Workload(<<Add("A", "n1", Pdf, "none", 0), Add("B", "n2", Png, "none", 0)>>, 0)
\* polling for the derived data while a second upload of the bytes is in flight
RacingGet == {Workload(<<Add("A", "n1", Pdf, "none", 0), Add("A", "n1", Pdf, "none", 0),
                         Get("A", l, 1)>>, 0) : l \in {"ocr", "summary"}}
\* a file of an unsupported MIME type, uploaded and polled
TxtThenGet == {Workload(<<Add("A", "n1", Txt, l1, 0), Get("A", l2, 1)>>, 0)
                 : l1 \in Levels, l2 \in {"ocr", "summary"}}
\* first calls of a process whose backend is not empty
FirstCalls == {Workload(<<Add("B", "n1", Pdf, "none", 0), Download("A", 0)>>, 0),
               Workload(<<Link("A", 0), Delete("B", 0)>>, 0),
               Workload(<<Add("B", "n1", Pdf, "none", 0), Exists("A", 1)>>, 0),
               Workload(<<Search(0), Exists("A", 1)>>, 0)}
\* one upload request, of every content type and size
HttpUploads == {Workload(<<Upload("A", ctype, size, "none", 0)>>, 0)
                  : ctype \in {"", Pdf, Png, Txt}, size \in UploadSizes}
\* an upload request, then a request about its checksum or about one nobody
\* uploaded, to the instance or to a name that is no instance; with a failure
HttpLookups == {Workload(<<Upload("A", Pdf, 10, "none", 0), ViaHttp(req, name)>>, MaxFailures)
                  : req \in {Link("A", 1), Link("B", 1), Get("A", "ocr", 1),
                             Get("B", "none", 1), Delete("A", 1), Delete("B", 1)},
                    name \in {"this", UnknownInterface}}
\* a listing next to an upload and its derivation
Searches == {Workload(<<Add("A", "n1", Pdf, l, 0), ViaHttp(Search(a), "this")>>, 0)
               : l \in {"none", "ocr"}, a \in {0, 1}}

Workloads == {AddTwoMimes, AddTwoNames, AddBoth, AddThenDelete} \cup AddThenGet \cup AddTwice \cup AddUpdateDelete
             \cup DeleteThenLook \cup AbsentCalls \cup RoundTrip \cup TxtThenGet
             \cup HttpUploads \cup HttpLookups \cup Searches \cup AddThenUpdate
             \cup BadUpdates \cup GetWhileDeriving

\* ---------------------------------------------------------------- backends
\* What the backend and the durable cache hold when the process starts: the
\* metadata document (if any), the objects, and the cache's content.
SeedRef(a, c, name) ==
    CASE a = "s3"     -> S3Key(c, name)
      [] a = "local"  -> LocalPath(c, name)
      [] a = "gdrive" -> DriveId(0)
\* a document with the entry of content A, uploaded by an earlier process
SeedDoc(a) == [EmptyDoc EXCEPT ![Checksum("A")] =
                  NewFileData(SeedRef(a, Checksum("A"), "n1"), "n1", Pdf)]
\* a cache that knows an entry the document does not hold
StaleDoc(a) == [SeedDoc(a) EXCEPT ![Checksum("B")] =
                  NewFileData(SeedRef(a, Checksum("B"), "n2"), "n2", Png)]
SeedStore(a) == {<<SeedRef(a, Checksum("A"), "n1"), "A">>}
Backend(a, kind) ==
    CASE kind = "fresh"     -> [exists |-> FALSE, remote |-> EmptyDoc, store |-> {},
                                cache |-> EmptyDoc]
      [] kind = "seeded"    -> [exists |-> TRUE, remote |-> SeedDoc(a), store |-> SeedStore(a),
                                cache |-> EmptyDoc]
      [] kind = "stale"     -> [exists |-> TRUE, remote |-> SeedDoc(a), store |-> SeedStore(a),
                                cache |-> StaleDoc(a)]
      [] kind = "truncated" -> [exists |-> TRUE, remote |-> ZeroBytes, store |-> SeedStore(a),
                                cache |-> SeedDoc(a)]
      [] kind = "corrupt"   -> [exists |-> TRUE, remote |-> Garbage, store |-> SeedStore(a),
                                cache |-> SeedDoc(a)]
      [] kind = "lost"      -> [exists |-> FALSE, remote |-> EmptyDoc, store |-> SeedStore(a),
                                cache |-> SeedDoc(a)]
\* The Drive items an earlier process left: none, all three, or the folders
\* without the metadata file.
BackendItems(kind) ==
    [n \in DriveNames |->
        CASE kind = "fresh" -> 0
          [] kind = "lost"  -> IF n = "metadata" THEN 0 ELSE 1
          [] OTHER          -> 1]
UsedBackends == {"seeded", "stale", "truncated", "corrupt", "lost"}

\* Which adapter runs which workload on which backend.
Scenarios == (Adapters \X Workloads \X {"fresh"})
             \cup ({"s3"} \X ({AddThrice} \cup RacingGet) \X {"fresh"})
             \cup (Adapters \X FirstCalls \X UsedBackends)

\* ---------------------------------------------------------- specification
Init ==
    /\ \E sc \in Scenarios :
          /\ adapter = sc[1]
          /\ tk = [t \in TaskIds |-> IF t <= Len(sc[2].calls) THEN CallTask(sc[2].calls[t])
                                     ELSE IdleTask]
          /\ failsLeft = sc[2].fails
          /\ cache = Backend(sc[1], sc[3]).cache
          /\ remote = Backend(sc[1], sc[3]).remote
          /\ remoteExists = Backend(sc[1], sc[3]).exists
          /\ store = Backend(sc[1], sc[3]).store
          /\ driveItems = BackendItems(sc[3])
    /\ shared = {}
    /\ nextDriveId = 1
    /\ initialized = FALSE
    /\ layoutLock = 0
    /\ driveService = FALSE
    /\ locks = [c \in Checksums |-> NoLock]
    /\ stats = [ocr |-> [c \in Checksums |-> 0], sum |-> [c \in Checksums |-> 0],
                uploads |-> [c \in Checksums |-> 0], boots |-> 0, wiped |-> FALSE]

Next ==
    \E t \in TaskIds :
        \/ Begin(t)
        \/ LayWait(t)
        \/ LayGet(t)
        \/ LayPut(t)
        \/ LayCache(t)
        \/ FsExists(t)
        \/ FsRead(t)
        \/ FsLoad(t)
        \/ FsReset(t)
        \/ FsSaveRead(t)
        \/ FsSaveWrite(t)
        \/ GdCred(t)
        \/ GdCache(t)
        \/ GdFolder(t)
        \/ AddRead(t)
        \/ AddUpload(t)
        \/ PutCache(t)
        \/ SyncRead(t)
        \/ SyncPut(t)
        \/ SyncPutFails(t)
        \/ AddReturn(t)
        \/ EoEnter(t)
        \/ EoWake(t)
        \/ EoGuard(t)
        \/ EoDownload(t)
        \/ EoDownloadFails(t)
        \/ EoOcr(t)
        \/ EoOcrFails(t)
        \/ EoSum(t)
        \/ EoSumFails(t)
        \/ GfdRead(t)
        \/ GfdReread(t)
        \/ UpdCache(t)
        \/ DelRead(t)
        \/ DelObject(t)
        \/ DelCache(t)
        \/ FeRead(t)
        \/ SearchRead(t)
        \/ DlRead(t)
        \/ DlFetch(t)
        \/ LinkRead(t)

Spec == Init /\ [][Next]_vars

\* ------------------------------------------------------------- properties
Holders(c) == {t \in TaskIds : tk[t].holds /\ Key(t) = c}
AllFinal == \A t \in TaskIds : tk[t].op # "none" => Final(t)
Derives(t) == tk[t].op \in {"ensure_ocr", "get_file_data"}

\* C1: for every checksum, at most one ensure_ocr task is between acquiring and
\* releasing the processing lock of that checksum.
C1_MutualExclusion == \A c \in Checksums : Cardinality(Holders(c)) <= 1

\* C1 (case reached): one task holds the lock while another one queues for it.
C1_Witness ==
    \E t, u \in TaskIds : /\ t # u
                          /\ tk[t].holds /\ Alive(t)
                          /\ tk[u].pc = "eo_wait"
                          /\ Key(u) = Key(t)

\* C2: when a collaborator, the download or the persist step fails inside
\* ensure_ocr, the call ends with the failure and no longer holds the
\* processing lock of the checksum.
C2_FailureReleasesLock ==
    \A t \in TaskIds :
        (Derives(t) /\ tk[t].pc = "failed" /\ tk[t].err \in {"ocr", "summarize", "backend"})
            => ~tk[t].holds

\* C3: no permanent wedge: a state in which nothing can move any more is one in
\* which every get_file_data call has returned or raised (none waits for a
\* lock that nobody will release).
C3_NoPermanentWedge ==
    (ENABLED Next) \/ (\A t \in TaskIds : tk[t].op = "get_file_data" => Final(t))

\* The calls of the behaviour are uploads of the same bytes that ask for the
\* summary of a supported MIME type, and nothing fails.
SummaryUploadsOnly(c) ==
    /\ \A t \in CallIds : tk[t].op \in {"none", "add_file"}
    /\ \A t \in CallIds : tk[t].op = "add_file" =>
            /\ Key(t) = c
            /\ tk[t].level = "summary"
            /\ SupportedMime(tk[t].mime)
    /\ \A t \in TaskIds : tk[t].err = ""

\* C4: uploads of the same new bytes with ensure_process = summary invoke the
\* extraction collaborator and the summarization collaborator exactly once.
C4_DerivedExactlyOnce ==
    \A c \in Checksums :
        SummaryUploadsOnly(c) =>
            /\ stats.ocr[c] <= 1
            /\ stats.sum[c] <= 1
            /\ (AllFinal /\ (\E t \in CallIds : tk[t].op = "add_file"))
                    => (stats.ocr[c] = 1 /\ stats.sum[c] = 1)

\* Calls t1 and t2 are the behaviour's only calls: two uploads of the same
\* bytes, the second made once the first has returned.
UploadedTwice(t1, t2) ==
    /\ tk[t1].op = "add_file" /\ tk[t2].op = "add_file"
    /\ tk[t2].after = t1
    /\ tk[t1].content = tk[t2].content
    /\ \A t \in CallIds \ {t1, t2} : tk[t].op = "none"

\* C5: add_file called twice, one call after the other, with the same bytes:
\* both calls return the same checksum and the same file_reference, and the
\* object is uploaded once (the second call uploads nothing).
C5_IdempotentUpload ==
    \A t1, t2 \in CallIds :
        (UploadedTwice(t1, t2) /\ tk[t1].pc = "done" /\ tk[t2].pc = "done") =>
            /\ Key(t1) = Key(t2)
            /\ tk[t1].fd.ref = tk[t2].fd.ref
            /\ tk[t1].fd.present
            /\ stats.uploads[Key(t1)] = 1
            /\ tk[t1].uploaded /\ ~tk[t2].uploaded

\* C5 (case reached): both uploads have returned, under different names.
C5_Witness ==
    \E t1, t2 \in CallIds :
        /\ UploadedTwice(t1, t2)
        /\ tk[t1].pc = "done" /\ tk[t2].pc = "done"
        /\ tk[t1].name # tk[t2].name

\* A task inside the bootstrap, or one that has changed the cache and not yet
\* written the remote document.
BootPcs == {"lay_wait", "lay_get", "lay_put", "lay_cache", "fs_exists", "fs_read",
            "fs_load", "fs_reset", "fs_save_read", "fs_save_write", "gd_cred",
            "gd_cache", "gd_folder"}
MidFlight(t) == tk[t].pc \in {"sync_read", "sync_put"} \cup BootPcs

\* C6: when a mutating operation has written the remote metadata document and
\* goes on to return, the document equals the in-memory cache (stated for the
\* returns during which no other operation is in the bootstrap or between its
\* change of the cache and its remote write, in runs where the bootstrap ran
\* once).
C6_CacheRemoteAgree ==
    [][\A t \in TaskIds :
          (/\ tk[t].pc = "sync_put"
           /\ tk'[t].pc \notin {"sync_put", "failed"}
           /\ \A u \in TaskIds \ {t} : ~MidFlight(u)
           /\ stats.boots <= 1)
              => remote' = cache']_vars

\* C7: the bootstrap body runs at most once, and no bootstrap drops or replaces
\* an entry of the cache.
C7_BootstrapOnce == stats.boots <= 1 /\ ~stats.wiped

\* C8: a derivation that found raw_ocr (or summary) set when it read the entry
\* under the lock does not change that field with its write.
C8_WriteOnce ==
    [][\A t \in TaskIds :
          (tk[t].pc = "eo_cache" /\ tk'[t].pc = "sync_read") =>
              LET c == Key(t) IN
              /\ (tk[t].seen.raw_ocr # None /\ cache[c].raw_ocr = tk[t].seen.raw_ocr)
                    => cache'[c].raw_ocr = cache[c].raw_ocr
              /\ (tk[t].seen.summary # None /\ cache[c].summary = tk[t].seen.summary)
                    => cache'[c].summary = cache[c].summary]_vars

\* C9: every entry of the cache whose summary is set has raw_ocr set.
C9_SummaryNeedsOcr ==
    \A c \in Checksums :
        (cache[c].present /\ cache[c].summary # None) => cache[c].raw_ocr # None

\* C10: add_file with level ocr or summary schedules the derivation whenever the
\* processing lock of the checksum is not held at that moment, also when a free
\* lock entry exists (stated for the uploads whose level is not yet satisfied:
\* after an extract-only derivation, an upload asking for the summary).
C10_ScheduledWhenFree ==
    \A t \in TaskIds :
        (tk[t].op = "add_file" /\ tk[t].sampledFree /\ tk[t].needed) => tk[t].spawned

\* Call a uploads bytes with level none, call d deletes them once a has
\* returned, and every other call is made once d has ended.
DeletedAfterUpload(a, d) ==
    /\ tk[a].op = "add_file" /\ tk[a].level = "none" /\ tk[a].pc = "done"
    /\ tk[d].op = "delete_file" /\ tk[d].after = a
    /\ tk[d].content = tk[a].content
    /\ \A k \in CallIds \ {a, d} : tk[k].op # "none" => tk[k].after = d

\* C11: after delete_file has returned for a known checksum, the cache and the
\* remote document no longer hold the checksum, the object is gone from the
\* backend, file_exists answers false and get_file_data fails with not-found.
C11_Deletion ==
    \A a, d \in CallIds :
        (DeletedAfterUpload(a, d) /\ tk[d].pc = "done") =>
            /\ ~cache[Key(d)].present
            /\ ~remote[Key(d)].present
            /\ Fetch(tk[d].fd.ref) = {}
            /\ \A k \in CallIds \ {a, d} :
                  /\ (tk[k].op = "file_exists" /\ tk[k].pc = "done") => ~tk[k].found
                  /\ (tk[k].op = "get_file_data" /\ Final(k)) =>
                        (tk[k].pc = "failed" /\ tk[k].err = "notfound")

\* The positions at which get_file_data, download_file, download_link and
\* delete_file look the checksum up in the cache.
LookupPcs == {"gfd_read", "dl_read", "link_read", "del_read"}

DownloadedAfterUpload(a, d) ==
    /\ tk[a].op = "add_file" /\ tk[a].pc = "done"
    /\ tk[d].op = "download_file" /\ tk[d].after = a
    /\ tk[d].content = tk[a].content
    /\ \A k \in CallIds : tk[k].op # "delete_file"

\* C13: add_file followed by download_file of the returned checksum returns the
\* uploaded bytes, with the name and the MIME type of the stored entry.
C13_RoundTrip ==
    \A a, d \in CallIds :
        (DownloadedAfterUpload(a, d) /\ Final(d)) =>
            /\ tk[d].pc = "done"
            /\ tk[d].rawc = tk[a].content
            /\ tk[d].fd.present
            /\ tk[d].name = tk[d].fd.name /\ tk[d].mime = tk[d].fd.mime

\* Calls a and b upload the same bytes under different names, both have
\* returned, and the behaviour holds no other call.
SameBytesTwoNames(a, b) ==
    /\ a # b
    /\ tk[a].op = "add_file" /\ tk[b].op = "add_file"
    /\ tk[a].content = tk[b].content /\ tk[a].name # tk[b].name
    /\ tk[a].pc = "done" /\ tk[b].pc = "done"
    /\ \A k \in CallIds \ {a, b} : tk[k].op = "none"

\* C14: two add_file calls with the same bytes and different names return the
\* same checksum and the metadata of one and the same cache entry, whose name
\* and file_reference are those of the upload that created it.
C14_ContentAddressing ==
    \A a, b \in CallIds :
        SameBytesTwoNames(a, b) =>
            /\ Key(a) = Key(b)
            /\ cache[Key(a)].present
            /\ tk[a].fd.name = cache[Key(a)].name /\ tk[a].fd.ref = cache[Key(a)].ref
            /\ tk[b].fd.name = cache[Key(a)].name /\ tk[b].fd.ref = cache[Key(a)].ref
            /\ stats.uploads[Key(a)] = 1

\* The remote metadata document exists and json.loads rejects its bytes.
Unparsable == remoteExists /\ remote \in {ZeroBytes, Garbage}
\* Task t is about to enter the bootstrap or is inside it.
Bootstrapping(t) ==
    \/ tk[t].pc \in BootPcs
    \/ tk[t].pc = "start" /\ BootsAtStart(tk[t].op)

\* C15: while the remote metadata document exists and does not parse, a step
\* of the bootstrap neither completes the bootstrap nor resets the cache nor
\* writes the document nor marks the adapter initialized, and a bootstrap that
\* ends, ends with the corrupt-metadata error.
C15_CorruptMetadata ==
    [][\A t \in CallIds :
          (Unparsable /\ Bootstrapping(t) /\ tk'[t] # tk[t]) =>
              /\ tk'[t].pc \in BootPcs \cup {"failed"}
              /\ tk'[t].pc = "failed" => tk'[t].err = "corrupt"
              /\ cache' = cache
              /\ remote' = remote
              /\ ~initialized']_vars

\* The positions whose step completes a run of the bootstrap body.
BootLastPcs == {"lay_cache", "fs_load", "fs_save_write", "gd_folder"}

\* C16: with the remote metadata document absent or valid: when a run of the
\* bootstrap body completes, the cache equals the document; a step of the
\* bootstrap writes the document only when it is absent, and then with the
\* empty files mapping.
C16_BootstrapResult ==
    [][\A t \in CallIds :
          (~Unparsable /\ Bootstrapping(t) /\ tk'[t] # tk[t]) =>
              /\ (tk[t].pc \in BootLastPcs /\ tk'[t].pc \notin BootPcs \cup {"failed"}) =>
                    (initialized' /\ remoteExists' /\ cache' = remote')
              /\ (remote' # remote \/ remoteExists' # remoteExists) =>
                    (~remoteExists /\ remoteExists' /\ remote' = EmptyDoc)]_vars


\* C17: a get_file_data call with level ocr returns metadata whose raw_ocr is
\* set, and with level summary metadata whose raw_ocr and summary are both
\* set; it returns only after its run of the pipeline ended (it holds no lock);
\* and a call that found the requested fields set invokes no collaborator.
Returns(t) == tk[t].pc # "done" /\ tk'[t].pc = "done"

Collaborates(t) == tk[t].pc \in {"eo_ocr", "eo_sum"} /\ tk'[t] # tk[t]

C17_GetReturnsDerived ==
    [][\A t \in CallIds :
          (tk[t].op = "get_file_data" /\ tk[t].level # "none") =>
              /\ Returns(t) =>
                    /\ tk'[t].fd.raw_ocr # None
                    /\ tk[t].level = "summary" => tk'[t].fd.summary # None
                    /\ ~tk'[t].holds
              /\ Collaborates(t) => NeedsWork(tk[t].seen, tk[t].level)]_vars


\* C18: an add_file call that uploaded new bytes of a supported MIME type with
\* level ocr or summary returns is_processing = TRUE, however the background
\* derivation task is scheduled relative to the caller.
C18_IsProcessingOnReturn ==
    \A t \in CallIds :
        (/\ tk[t].op = "add_file"
         /\ tk[t].pc = "done"
         /\ tk[t].uploaded
         /\ SupportedMime(tk[t].mime)
         /\ tk[t].level # "none") => tk[t].isproc


\* C19: a derivation (level ocr or summary) whose file has a MIME type that is
\* neither application/pdf nor image/* calls no collaborator and, from the test
\* of the MIME type on, raises nothing; its write puts the same sentinel text into raw_ocr and summary of
\* the cache entry, the remote document it then writes carries them, and the
\* step that ends it releases the lock.
Derivation(t) == tk[t].op \in {"ensure_ocr", "get_file_data"} /\ tk[t].rawc # ""

NotPdfNorImage(mime) == mime \notin {Pdf, Png}

HasSentinel(fd, mime) == fd.raw_ocr = Unsupported(mime) /\ fd.summary = Unsupported(mime)

\* where ensure_ocr is once it took the branch of the unsupported MIME type
SentinelPcs == {"eo_cache", "sync_read", "sync_put"}

C19_UnsupportedMime ==
    [][\A t \in TaskIds :
          (Derivation(t) /\ NotPdfNorImage(tk[t].mime) /\ tk'[t] # tk[t]) =>
              /\ tk[t].pc \notin {"eo_ocr", "eo_sum"}
              /\ stats'.ocr = stats.ocr /\ stats'.sum = stats.sum
              /\ tk[t].pc \in SentinelPcs => tk'[t].pc # "failed"
              /\ tk[t].pc = "eo_cache" => HasSentinel(cache'[Key(t)], tk[t].mime)
              /\ tk[t].pc = "sync_put" =>
                    /\ HasSentinel(remote'[Key(t)], tk[t].mime)
                    /\ ~tk'[t].holds
                    /\ ~locks'[Key(t)].locked]_vars


\* C20: the step at which the extraction or the summarization collaborator
\* fails changes neither the cache nor the remote document, and the failing
\* derivation has written nothing before it: raw_ocr and summary of the
\* checksum are what they were, a text extracted before a failing
\* summarization included.
DerivationFails(t) ==
    tk[t].pc # "failed" /\ tk'[t].pc = "failed" /\ tk'[t].err \in {"ocr", "summarize"}

C21_FileExistsPure ==
    [][\A t \in CallIds :
          (tk[t].op = "file_exists" /\ tk'[t] # tk[t]) =>
              /\ UNCHANGED <<cache, remote, remoteExists, store, shared, locks,
                             initialized, layoutLock, driveService, stats>>
              /\ tk'[t].pc # "failed"
              /\ Returns(t) => (tk'[t].found <=> cache[Key(t)].present)]_vars

C21_Witness ==
    \E t \in CallIds :
        /\ tk[t].op = "file_exists" /\ tk[t].pc = "done" /\ tk[t].found
        /\ ~initialized
        /\ cache[Key(t)].present


\* C22: an upload request with no content type, no size, a size over 5 MiB or a
\* content type that is neither application/pdf nor image/* is answered with
\* status 400 and add_file is never called; an upload of exactly 5 MiB of an
\* accepted type is not refused.
BadUpload(r) ==
    r.mime = "" \/ r.size = 0 \/ r.size > 5 * 1024 * 1024 \/ r.mime \notin {Pdf, Png}

C22_UploadRejected ==
    \A t \in CallIds :
        (tk[t].http # "" /\ tk[t].op = "add_file" /\ Final(t)) =>
            /\ BadUpload(tk[t]) =>
                  /\ Status(tk[t]) = 400
                  /\ tk[t].ret = "" /\ ~tk[t].uploaded
                  /\ stats.boots = 0 /\ store = {} /\ cache = EmptyDoc
            /\ ~BadUpload(tk[t]) => tk[t].err # "rejected"


\* C23: a request (GET /file, POST /data, DELETE /file) for a checksum that is
\* not in the cache, or naming no instance, is answered with a status of the
\* 4xx class; a request that failed in the backend is answered with 500.
ClientError(status) == status \in 400..499

C23_StatusClasses ==
    \A t \in CallIds :
        (/\ tk[t].http # "" /\ Final(t)
         /\ tk[t].op \in {"download_link", "get_file_data", "delete_file"}) =>
            /\ ~Routed(tk[t]) => ClientError(Status(tk[t]))
            /\ tk[t].err = "notfound" => ClientError(Status(tk[t]))
            /\ tk[t].err = "backend" => Status(tk[t]) = 500


\* C24: a search_files call on an adapter that completed its bootstrap goes
\* straight to its read of the cache; the read returns one entry per checksum
\* in the cache, each with the cached metadata and is_processing TRUE exactly
\* when the processing lock of the checksum is held; neither step changes the
\* cache, the remote document, the store or the lock table.
Bootstrapped == initialized /\ (adapter = "gdrive" => driveService)

C24_SearchListsCache ==
    [][\A t \in CallIds :
          (tk[t].op = "search_files" /\ tk'[t] # tk[t]) =>
              /\ (tk[t].pc = "start" /\ Bootstrapped) =>
                    /\ tk'[t].pc = "sf_read"
                    /\ UNCHANGED <<cache, remote, remoteExists, store, locks, stats>>
              /\ tk[t].pc = "sf_read" =>
                    /\ Returns(t)
                    /\ UNCHANGED <<cache, remote, remoteExists, store, locks, stats>>
                    /\ \A c \in Checksums :
                          /\ tk'[t].listing[c].fd = cache[c]
                          /\ cache[c].present =>
                                (tk'[t].listing[c].isproc <=> locks[c].locked)]_vars

C24_Witness ==
    \E t \in CallIds :
        /\ tk[t].op = "search_files" /\ tk[t].pc = "done"
        /\ tk[t].after # 0 /\ stats.boots = 1
        /\ \E c \in Checksums : tk[t].listing[c].fd.present /\ tk[t].listing[c].isproc


\* C25: a checksum that has an entry in the lock table keeps it (no step, a
\* deletion included, removes it), and an entry appears only at the entry step
\* of an ensure_ocr with level ocr or summary that finds the checksum in the
\* cache; an ensure_ocr that does not find it creates none.
EntersPipeline(t, c) ==
    tk[t].pc = "eo_enter" /\ tk'[t].pc # "eo_enter" /\ Key(t) = c

C25_LockTableGrows ==
    [][\A c \in Checksums :
          /\ locks[c].exists => locks'[c].exists
          /\ (~locks[c].exists /\ locks'[c].exists) =>
                \E t \in TaskIds : /\ EntersPipeline(t, c)
                                   /\ tk[t].level \in {"ocr", "summary"}
                                   /\ cache[c].present
          /\ \A t \in TaskIds :
                (EntersPipeline(t, c) /\ ~cache[c].present) => locks'[c] = locks[c]]_vars

C25_Witness ==
    \E c \in Checksums, t \in CallIds :
        /\ locks[c].exists /\ ~cache[c].present
        /\ tk[t].op = "delete_file" /\ tk[t].pc = "done" /\ Key(t) = c


\* C26: once a delete_file of a checksum has returned and the checksum is
\* absent from the cache and from the remote document, no step of a derivation
\* that was in flight at the deletion brings it back into either.
Deleted(c) ==
    \E d \in CallIds : tk[d].op = "delete_file" /\ tk[d].pc = "done" /\ Key(d) = c

C26_DeletionStays ==
    [][\A c \in Checksums, t \in TaskIds :
          (/\ Deleted(c) /\ ~cache[c].present /\ ~remote[c].present
           /\ tk'[t] # tk[t] /\ tk[t].op \in {"ensure_ocr", "get_file_data"}) =>
              ~cache'[c].present /\ ~remote'[c].present]_vars


\* C27: on the object-storage and local-filesystem adapters, in a run of
\* mutating calls only (uploads of different bytes) where the bootstrap ran once: once every call and every
\* background task has returned without an error and some call wrote the
\* metadata, the remote document equals the cache, and every checksum
\* an add_file uploaded and no delete_file was called for is in both.
AllSucceeded == \A t \in TaskIds : tk[t].op # "none" => tk[t].pc = "done"

OnlyMutators ==
    /\ \A t \in CallIds : tk[t].op \in {"none", "add_file", "update_file_data", "delete_file"}
    /\ \A t, u \in CallIds :
          (t # u /\ tk[t].op = "add_file" /\ tk[u].op = "add_file") => Key(t) # Key(u)

Mutated == \E t \in TaskIds : tk[t].wrote \/ tk[t].op \in {"update_file_data", "delete_file"}

Kept(c) ==
    /\ \E t \in CallIds : tk[t].op = "add_file" /\ Key(t) = c
    /\ \A t \in CallIds : tk[t].op = "delete_file" => Key(t) # c

C27_EventualConsistency ==
    (adapter \in {"s3", "local"} /\ OnlyMutators /\ AllSucceeded /\ Mutated
     /\ stats.boots <= 1) =>
        /\ remoteExists /\ remote = cache
        /\ \A c \in Checksums : Kept(c) => (cache[c].present /\ remote[c].present)


\* C28: in a run where the bootstrap ran once, add_file calls with identical
\* bytes that have returned upload the object once in all and carry the same
\* file_reference, that of the one cache entry of the checksum.
SameBytes(t, u) ==
    /\ t # u /\ Key(t) = Key(u)
    /\ tk[t].op = "add_file" /\ tk[t].pc = "done"
    /\ tk[u].op = "add_file" /\ tk[u].pc = "done"

C28_UploadedOnce ==
    \A t, u \in CallIds :
        (SameBytes(t, u) /\ stats.boots <= 1) =>
            /\ stats.uploads[Key(t)] <= 1
            /\ tk[t].fd.ref = tk[u].fd.ref
            /\ cache[Key(t)].present => cache[Key(t)].ref = tk[t].fd.ref


\* C29: in a run of add_file calls where the bootstrap ran once, no step of a call
\* replaces a raw_ocr or a summary that is set, in the cache or in the remote
\* document, by an unset one.
KeepsDerived(old, new) ==
    /\ (old.present /\ old.raw_ocr # None) => new.raw_ocr # None
    /\ (old.present /\ old.summary # None) => new.summary # None

OnlyUploads == \A t \in CallIds : tk[t].op \in {"none", "add_file"}

C29_DerivedSurvive ==
    [][\A t \in CallIds :
          (tk[t].op = "add_file" /\ tk'[t] # tk[t] /\ OnlyUploads /\ stats.boots <= 1) =>
              /\ KeepsDerived(cache[Key(t)], cache'[Key(t)])
              /\ KeepsDerived(remote[Key(t)], remote'[Key(t)])]_vars


\* C30: when ensure_ocr, holding the lock, reads an entry whose fields required
\* by the level are set (raw_ocr for ocr; raw_ocr and summary for summary), the
\* same step releases the lock and ends ensure_ocr: no collaborator is called,
\* nothing is downloaded, and neither the cache nor the remote document is
\* written.
FieldsSet(fd, level) ==
    fd.present /\ fd.raw_ocr # None /\ (level = "summary" => fd.summary # None)

C30_IdempotenceGuard ==
    [][\A t \in TaskIds :
          (/\ tk[t].pc = "eo_guard" /\ tk'[t] # tk[t]
           /\ FieldsSet(cache[Key(t)], tk[t].level)) =>
              /\ tk'[t].pc \in {"done", "gfd_reread"}
              /\ ~tk'[t].holds /\ ~locks'[Key(t)].locked
              /\ tk'[t].rawc = tk[t].rawc
              /\ UNCHANGED <<cache, remote, remoteExists, store, stats>>]_vars

C30_Witness ==
    \E t \in TaskIds :
        /\ Derives(t) /\ tk[t].pc \in {"done", "gfd_reread"}
        /\ FieldsSet(tk[t].seen, tk[t].level)
        /\ ~tk[t].wrote /\ ~tk[t].holds
        /\ stats.ocr[Key(t)] = 1


\* C31: in a run where the bootstrap ran once, no state is reachable in which
\* a derivation that wrote its result has finished, the processing lock of the
\* checksum is free, and the entry of the checksum in the cache lacks the
\* derived raw_ocr.
Finished(t) == Derives(t) /\ tk[t].pc \in {"done", "gfd_reread"} /\ tk[t].wrote

C31_PersistBeforeRelease ==
    \A t \in TaskIds :
        (Finished(t) /\ ~locks[Key(t)].locked /\ stats.boots <= 1) =>
            (cache[Key(t)].present => cache[Key(t)].raw_ocr # None)


Extracts(t) == tk[t].pc = "eo_ocr" /\ tk'[t].pc \in {"eo_sum", "eo_cache"}

Summarizes(t) == tk[t].pc = "eo_sum" /\ tk'[t].pc = "eo_cache"

C33_DerivationLevels ==
    [][\A t \in TaskIds :
          /\ Extracts(t) =>
                /\ SupportedMime(tk[t].mime)
                /\ tk[t].seen.raw_ocr = None
                /\ tk'[t].fd.raw_ocr = <<"ocr", ContentOf(Key(t))>>
                /\ tk'[t].fd.summary = tk[t].seen.summary
                /\ stats'.sum = stats.sum
          /\ tk[t].pc = "eo_sum" => tk[t].level = "summary"
          /\ Summarizes(t) =>
                /\ SupportedMime(tk[t].mime)
                /\ tk[t].seen.summary = None
                /\ tk[t].fd.raw_ocr # None
                /\ tk[t].fd.raw_ocr \in {tk[t].seen.raw_ocr, <<"ocr", ContentOf(Key(t))>>}
                /\ tk'[t].fd.summary = <<"sum", tk[t].fd.raw_ocr>>
                /\ tk'[t].fd.raw_ocr = tk[t].fd.raw_ocr
          /\ (tk[t].pc = "eo_cache" /\ tk[t].level = "ocr" /\ SupportedMime(tk[t].mime)
              /\ tk'[t] # tk[t]) =>
                cache'[Key(t)].summary = tk[t].seen.summary]_vars

C33_Witness ==
    \E t \in TaskIds :
        /\ Derives(t) /\ tk[t].level = "summary" /\ tk[t].pc = "eo_cache"
        /\ tk[t].seen.raw_ocr # None /\ tk[t].seen.summary = None
        /\ tk[t].fd.summary = <<"sum", tk[t].seen.raw_ocr>>
        /\ stats.ocr[Key(t)] = 1 /\ stats.sum[Key(t)] = 1


\* C34: in a run of add_file, get_file_data and delete_file calls without
\* failures where the bootstrap ran once, whenever no call and no background
\* task is in flight, every checksum in the cache has a file_reference under
\* which the store holds exactly the bytes of that checksum.
UploadsAndDeletes ==
    \A t \in CallIds : tk[t].op \in {"none", "add_file", "get_file_data", "delete_file"}

NoFailure == \A t \in TaskIds : tk[t].err \notin {"backend", "ocr", "summarize", "corrupt"}

C34_ReferentialIntegrity ==
    (UploadsAndDeletes /\ NoFailure /\ AllFinal /\ stats.boots <= 1) =>
        \A c \in Checksums :
            cache[c].present => Fetch(cache[c].ref) = {ContentOf(c)}


\* C35: when the remote metadata write of a mutating operation fails while no
\* other task is running, the operation ends with that failure (it does not
\* write again) and the cache equals the remote document afterwards.
PublishFails(t) == tk[t].pc = "sync_put" /\ tk'[t].pc = "failed"

C35_FailedPublish ==
    [][\A t \in TaskIds :
          (PublishFails(t) /\ \A u \in TaskIds \ {t} : ~Alive(u)) =>
              /\ tk'[t].err = "backend"
              /\ remote' = remote
              /\ remoteExists' /\ cache' = remote']_vars


\* C36: in a run of one add_file with its derivation and one update_file_data
\* of a field the derivation does not derive, where the bootstrap ran once:
\* once all of them have returned without an error, the entry has the updated
\* field and the derived raw_ocr, in the cache and in the remote document.
UpdateNextToDerivation(u) ==
    /\ tk[u].op = "update_file_data" /\ tk[u].upd \in {"name", "summary"}
    /\ \A t \in CallIds \ {u} : tk[t].op \in {"none", "add_file"}
    /\ \E b \in BgIds : Derives(b) /\ Key(b) = Key(u) /\ tk[b].level = "ocr" /\ tk[b].wrote

HasBoth(fd, upd) == fd.present /\ fd = Updated(fd, upd) /\ fd.raw_ocr # None

C36_UpdateNotLost ==
    \A u \in CallIds :
        (UpdateNextToDerivation(u) /\ AllSucceeded /\ stats.boots <= 1) =>
            /\ HasBoth(cache[Key(u)], tk[u].upd)
            /\ HasBoth(remote[Key(u)], tk[u].upd)

\* C37: a call of update_file_data that fails because the checksum is unknown
\* or a key of the updates is no FileData attribute has written nothing to
\* the remote document, and its failing step leaves the cache as it was.
UpdateRefused(t) ==
    /\ tk[t].op = "update_file_data" /\ tk[t].pc = "upd_cache"
    /\ tk'[t].pc = "failed" /\ tk'[t].err \in {"notfound", "invalid"}

C37_UpdateAllOrNothing ==
    [][\A t \in CallIds :
          UpdateRefused(t) => (cache' = cache /\ remote' = remote)]_vars

\* C38: the step of get_file_data(checksum, none) that follows its cache read
\* ends the call, with the cached metadata or with not-found, whoever holds
\* the processing lock of the checksum; the call never holds or waits for a
\* lock and the lock table stays as it was.
PlainGet(t) == tk[t].op = "get_file_data" /\ tk[t].level = "none"

C38_PlainGetNeverWaits ==
    [][\A t \in CallIds :
          (PlainGet(t) /\ tk[t].pc = "gfd_read" /\ tk'[t] # tk[t]) =>
              /\ locks' = locks /\ ~tk'[t].holds
              /\ IF cache[Key(t)].present
                 THEN /\ tk'[t].pc = "done" /\ tk'[t].fd = cache[Key(t)]
                      /\ tk'[t].isproc = locks[Key(t)].locked
                 ELSE tk'[t].pc = "failed" /\ tk'[t].err = "notfound"]_vars

\* a plain get has returned the metadata while the lock of its checksum was
\* held, and the derivation still holds it
C38_Witness ==
    \E t \in CallIds, b \in BgIds :
        /\ PlainGet(t) /\ tk[t].pc = "done" /\ tk[t].fd.present /\ tk[t].isproc
        /\ Derives(b) /\ Key(b) = Key(t) /\ tk[b].holds
        /\ locks[Key(t)].exists /\ locks[Key(t)].locked

\* C39: on Drive no step creates a main folder, a metadata file or a files
\* sub-folder while one of that name exists, and there is never more than one
\* of each, however the first calls of the process interleave.
C39_NoDuplicateItems ==
    [][adapter = "gdrive" =>
          \A n \in DriveNames :
              /\ driveItems'[n] <= 1
              /\ driveItems'[n] > driveItems[n] => driveItems[n] = 0]_vars

\* two callers ran the structure check on an empty Drive before any upload,
\* one of them finished it, and there is one item of each name
C39_Witness ==
    /\ adapter = "gdrive" /\ stats.boots >= 2 /\ initialized /\ store = {}
    /\ \A n \in DriveNames : driveItems[n] = 1

====
